---- MODULE Spec2Model ----
(***************************************************************************)
(* The service-hosting lifecycle of the RMCP server's main (src/main.rs):  *)
(* transport selection, the stdio path (serve, waiting), the SSE path      *)
(* (parse the bind address, start the listener, register the Counter       *)
(* factory, wait for Ctrl+C, cancel), the tracing events main emits and    *)
(* the result main returns.  The listener, the stdio session, the signal   *)
(* and the clients are the environment main awaits on.                     *)
(*                                                                         *)
(* A SIGINT that arrives before ctrl_c() has installed its handler is      *)
(* handled by the operating system's default disposition, outside main;    *)
(* it is not part of this model.                                           *)
(***************************************************************************)
EXTENDS Integers, Sequences, FiniteSets, TLC

\* ------------------------------------------------------------------ bounds
MaxConns == 2      \* inbound SSE connections per run
MaxVal == 1        \* counter values stay within -MaxVal..MaxVal
MaxSignals == 2    \* interrupt signals delivered per run

VARIABLES
    transport,     \* args.transport
    bind_address,  \* args.bind_address
    log_level,     \* args.log_level
    pc,            \* main's position
    result,        \* what main has returned
    events,        \* the tracing macro calls main has made, in order
    server,        \* the SSE listener: bound / factory registered
    ct,            \* the cancellation token with_service returns
    cancelCalls,   \* calls of ct.cancel() main has made
    conns,         \* inbound SSE connections, in order of acceptance
    instances,     \* the Counter instances constructed, by construction order
    session,       \* the stdio session
    sigints,       \* interrupt signals delivered to the installed handler
    handler        \* whether ctrl_c() has installed its handler

vars == <<transport, bind_address, log_level, pc, result, events, server, ct,
          cancelCalls, conns, instances, session, sigints, handler>>

\* ------------------------------------------------------------- arguments
TransportType == {"Stdio", "Sse"}

\* A bind address string, by its parts: the dotted numbers before the colon,
\* the numbers after it (none when the string has no port) and whether the
\* string holds anything that is not a digit, a dot or the one colon.
Addr(octets, port, junk) == [octets |-> octets, port |-> port, junk |-> junk]

BindAddresses ==
    { Addr(<<127, 0, 0, 1>>, <<8000>>, FALSE),    \* 127.0.0.1:8000 (default)
      Addr(<<127, 0, 0, 1>>, <<0>>, FALSE),       \* 127.0.0.1:0
      Addr(<<0, 0, 0, 0>>, <<9000>>, FALSE),      \* 0.0.0.0:9000
      Addr(<<>>, <<>>, TRUE),                     \* not-an-address
      Addr(<<127, 0, 0, 1>>, <<>>, FALSE),        \* 127.0.0.1
      Addr(<<256, 0, 0, 1>>, <<80>>, FALSE),      \* 256.0.0.1:80
      Addr(<<127, 0, 1>>, <<8000>>, FALSE),       \* 127.0.1:8000
      Addr(<<127, 0, 0, 1>>, <<65536>>, FALSE) }  \* 127.0.0.1:65536

LogLevels == {"trace", "debug", "info", "warn", "error", "verbose"}

\* str::parse::<SocketAddr>() on an IPv4 "a.b.c.d:port" string.
ParseOk(s) ==
    /\ ~s.junk
    /\ Len(s.octets) = 4
    /\ \A i \in 1..Len(s.octets) : s.octets[i] \in 0..255
    /\ Len(s.port) = 1
    /\ s.port[1] \in 0..65535

ParseAddr(s) ==
    IF ParseOk(s)
    THEN [tag |-> "Ok", ip |-> s.octets, port |-> s.port[1]]
    ELSE [tag |-> "Err", ip |-> <<>>, port |-> 0]

\* ---------------------------------------------------------------- tracing
\* match args.log_level.as_str() { ... _ => INFO }
Level(l) ==
    CASE l = "trace" -> "TRACE"
      [] l = "debug" -> "DEBUG"
      [] l = "info"  -> "INFO"
      [] l = "warn"  -> "WARN"
      [] l = "error" -> "ERROR"
      [] OTHER       -> "INFO"

Verbosity(lv) ==
    CASE lv = "ERROR" -> 1
      [] lv = "WARN"  -> 2
      [] lv = "INFO"  -> 3
      [] lv = "DEBUG" -> 4
      [] lv = "TRACE" -> 5

Ev(lv, msg) == [level |-> lv, msg |-> msg]

\* with_max_level(level): the events that reach the output.
Passes(e) == Verbosity(e.level) <= Verbosity(Level(log_level))
Emitted == SelectSeq(events, Passes)

\* ----------------------------------------------------------------- results
Pending == [tag |-> "Pending", e |-> "none"]
Ok == [tag |-> "Ok", e |-> "none"]
Err(e) == [tag |-> "Err", e |-> e]

\* The exit status the Rust runtime gives main's Result.
ExitCode(r) == IF r.tag = "Ok" THEN 0 ELSE 1

\* ------------------------------------------------------ collaborators
\* Counter::new
CounterNew == 0

\* A provider that hands every connection a clone of one instance.
SharedProvider == "shared"

\* The producer of Service Instances main hands to with_service.
ServiceProvider == "Counter::new"

\* CancellationToken: cancel() marks the token cancelled and wakes the tasks
\* waiting on it; on a token already cancelled it does nothing.
NoToken == [held |-> FALSE, cancelled |-> FALSE, wakeups |-> 0]
NewToken == [held |-> TRUE, cancelled |-> FALSE, wakeups |-> 0]
\* A cancel that wakes the waiting tasks on every call.
CancelAgain(t) == [t EXCEPT !.cancelled = TRUE, !.wakeups = @ + 1]

Cancel(t) ==
    IF t.cancelled THEN t
    ELSE [t EXCEPT !.cancelled = TRUE, !.wakeups = @ + 1]

NoServer == [bound |-> FALSE, factory |-> "none"]

\* ------------------------------------------------------------------- Init
Init ==
    /\ transport \in TransportType
    /\ bind_address \in BindAddresses
    /\ log_level \in LogLevels
    /\ pc = "start"
    /\ result = Pending
    /\ events = <<>>
    /\ server = NoServer
    /\ ct = NoToken
    /\ cancelCalls = 0
    /\ conns = <<>>
    /\ instances = <<>>
    /\ session = "none"
    /\ sigints = 0
    /\ handler = FALSE

envVars == <<conns, instances, session, sigints>>
argVars == <<transport, bind_address, log_level>>

\* The events of lines 59-60 and of the first lines of each branch.
StdioStartEvents ==
    << Ev("INFO", "Starting RMCP server"),
       Ev("DEBUG", "Parsed command line arguments"),
       Ev("INFO", "Using stdio transport"),
       Ev("DEBUG", "Initializing Counter service with stdio transport") >>

SseStartEvents ==
    << Ev("INFO", "Starting RMCP server"),
       Ev("DEBUG", "Parsed command line arguments"),
       Ev("INFO", "Using SSE transport (default)"),
       Ev("DEBUG", "Parsing bind address") >>

\* The stdio branch constructing a second Counter.
StartTwoInstances ==
    /\ pc = "start"
    /\ IF transport = "Stdio"
       THEN /\ events' = events \o StdioStartEvents
            /\ instances' = instances \o <<CounterNew, CounterNew>>
            /\ session' = "initializing"
            /\ pc' = "stdio_serve"
       ELSE /\ events' = events \o SseStartEvents
            /\ UNCHANGED <<instances, session>>
            /\ pc' = "sse_parse"
    /\ UNCHANGED <<argVars, result, server, ct, cancelCalls, conns, sigints, handler>>

\* The SSE branch attaching the stdio transport as well.
StartSseAlsoStdio ==
    /\ pc = "start"
    /\ IF transport = "Stdio"
       THEN /\ events' = events \o StdioStartEvents
            /\ instances' = Append(instances, CounterNew)
            /\ session' = "initializing"
            /\ pc' = "stdio_serve"
       ELSE /\ events' = events \o SseStartEvents
            /\ session' = "initializing"
            /\ UNCHANGED instances
            /\ pc' = "sse_parse"
    /\ UNCHANGED <<argVars, result, server, ct, cancelCalls, conns, sigints, handler>>

\* The bind address parsed before the transport is looked at.
StartParsesAlways ==
    /\ pc = "start"
    /\ IF ParseAddr(bind_address).tag = "Err"
       THEN /\ events' = events \o
                   << Ev("INFO", "Starting RMCP server"),
                      Ev("ERROR", "Failed to parse bind address") >>
            /\ result' = Err("ConfigurationError")
            /\ pc' = "done"
            /\ UNCHANGED <<instances, session>>
       ELSE /\ UNCHANGED result
            /\ IF transport = "Stdio"
               THEN /\ events' = events \o StdioStartEvents
                    /\ instances' = Append(instances, CounterNew)
                    /\ session' = "initializing"
                    /\ pc' = "stdio_serve"
               ELSE /\ events' = events \o SseStartEvents
                    /\ UNCHANGED <<instances, session>>
                    /\ pc' = "sse_parse"
    /\ UNCHANGED <<argVars, server, ct, cancelCalls, conns, sigints, handler>>

\* An unrecognized log level treated as a fatal configuration error.
StartRejectsUnknownLevel ==
    /\ pc = "start"
    /\ IF log_level \notin {"trace", "debug", "info", "warn", "error"}
       THEN /\ result' = Err("ConfigurationError")
            /\ pc' = "done"
            /\ UNCHANGED <<events, instances, session>>
       ELSE /\ UNCHANGED result
            /\ IF transport = "Stdio"
               THEN /\ events' = events \o StdioStartEvents
                    /\ instances' = Append(instances, CounterNew)
                    /\ session' = "initializing"
                    /\ pc' = "stdio_serve"
               ELSE /\ events' = events \o SseStartEvents
                    /\ UNCHANGED <<instances, session>>
                    /\ pc' = "sse_parse"
    /\ UNCHANGED <<argVars, server, ct, cancelCalls, conns, sigints, handler>>

\* ------------------------------------------------------------ main: start
\* lines 45-62, then the first lines of the selected branch.
Start ==
    /\ pc = "start"
    /\ IF transport = "Stdio"
       THEN /\ events' = events \o StdioStartEvents
            /\ instances' = Append(instances, CounterNew)
            /\ session' = "initializing"
            /\ pc' = "stdio_serve"
       ELSE /\ events' = events \o SseStartEvents
            /\ UNCHANGED <<instances, session>>
            /\ pc' = "sse_parse"
    /\ UNCHANGED <<argVars, result, server, ct, cancelCalls, conns, sigints, handler>>

\* ------------------------------------------------------------ main: stdio
\* Counter::new().serve(stdio()).await returned Ok.
StdioServeOk ==
    /\ pc = "stdio_serve"
    /\ session \in {"initializing", "closed"}
    /\ session' = IF session = "initializing" THEN "serving" ELSE session
    /\ events' = Append(events, Ev("INFO", "Service initialized, waiting for completion"))
    /\ pc' = "stdio_waiting"
    /\ UNCHANGED <<argVars, result, server, ct, cancelCalls, conns, instances,
                   sigints, handler>>

\* The attachment error logged but not returned.
StdioServeErrContinue ==
    /\ pc = "stdio_serve"
    /\ events' = Append(events, Ev("ERROR", "Failed to serve Counter over stdio"))
    /\ pc' = "stdio_waiting"
    /\ UNCHANGED <<argVars, result, server, ct, cancelCalls, envVars, handler>>

\* ... returned Err: inspect_err logs, ? returns.
StdioServeErr ==
    /\ pc = "stdio_serve"
    /\ events' = Append(events, Ev("ERROR", "Failed to serve Counter over stdio"))
    /\ result' = Err("AttachmentError")
    /\ pc' = "done"
    /\ UNCHANGED <<argVars, server, ct, cancelCalls, envVars, handler>>

\* The stdio branch made to wait for the interrupt signal before it returns.
StdioWaitingOkOnSignal ==
    /\ pc = "stdio_waiting"
    /\ session = "closed"
    /\ sigints > 0
    /\ events' = events \o << Ev("INFO", "Service completed"),
                              Ev("INFO", "RMCP server exiting") >>
    /\ result' = Ok
    /\ pc' = "done"
    /\ UNCHANGED <<argVars, server, ct, cancelCalls, envVars, handler>>

\* service.waiting().await returned Ok: the session ended by itself.
StdioWaitingOk ==
    /\ pc = "stdio_waiting"
    /\ session = "closed"
    /\ events' = events \o << Ev("INFO", "Service completed"),
                              Ev("INFO", "RMCP server exiting") >>
    /\ result' = Ok
    /\ pc' = "done"
    /\ UNCHANGED <<argVars, server, ct, cancelCalls, envVars, handler>>

\* The wait's error dropped: main returns Ok.
StdioWaitingErrSwallowed ==
    /\ pc = "stdio_waiting"
    /\ session = "failed"
    /\ result' = Ok
    /\ pc' = "done"
    /\ UNCHANGED <<argVars, events, server, ct, cancelCalls, envVars, handler>>

\* service.waiting().await returned Err: ? returns, nothing is logged.
StdioWaitingErr ==
    /\ pc = "stdio_waiting"
    /\ session = "failed"
    /\ result' = Err("SessionError")
    /\ pc' = "done"
    /\ UNCHANGED <<argVars, events, server, ct, cancelCalls, envVars, handler>>

\* -------------------------------------------------------------- main: sse
\* The parse result not examined: the listener is started whatever it is.
SseParseUnchecked ==
    /\ pc = "sse_parse"
    /\ events' = Append(events, Ev("INFO", "Starting SSE server on"))
    /\ pc' = "sse_serve"
    /\ UNCHANGED <<argVars, result, server, ct, cancelCalls, envVars, handler>>

\* args.bind_address.parse(), lines 82-88.
SseParse ==
    /\ pc = "sse_parse"
    /\ IF ParseAddr(bind_address).tag = "Ok"
       THEN /\ events' = Append(events, Ev("INFO", "Starting SSE server on"))
            /\ pc' = "sse_serve"
            /\ UNCHANGED result
       ELSE /\ events' = Append(events, Ev("ERROR", "Failed to parse bind address"))
            /\ result' = Err("ConfigurationError")
            /\ pc' = "done"
    /\ UNCHANGED <<argVars, server, ct, cancelCalls, envVars, handler>>

\* SseServer::serve(addr).await returned Ok(server), lines 92-94.
SseServeOk ==
    /\ pc = "sse_serve"
    /\ server' = [server EXCEPT !.bound = TRUE]
    /\ events' = Append(events, Ev("DEBUG", "SSE server started successfully"))
    /\ pc' = "sse_with_service"
    /\ UNCHANGED <<argVars, result, ct, cancelCalls, envVars, handler>>

\* The listener start tried again after a failure.
SseServeErrRetry ==
    /\ pc = "sse_serve"
    /\ events' = Append(events, Ev("ERROR", "Failed to start SSE server"))
    /\ pc' = "sse_serve"
    /\ UNCHANGED <<argVars, result, server, ct, cancelCalls, envVars, handler>>

\* The listener-start error logged but not returned.
SseServeErrContinue ==
    /\ pc = "sse_serve"
    /\ events' = Append(events, Ev("ERROR", "Failed to start SSE server"))
    /\ pc' = "sse_with_service"
    /\ UNCHANGED <<argVars, result, server, ct, cancelCalls, envVars, handler>>

\* SseServer::serve(addr).await returned Err(e), lines 97-100.
SseServeErr ==
    /\ pc = "sse_serve"
    /\ events' = Append(events, Ev("ERROR", "Failed to start SSE server"))
    /\ result' = Err("BindError")
    /\ pc' = "done"
    /\ UNCHANGED <<argVars, server, ct, cancelCalls, envVars, handler>>

\* main constructing a Counter itself and registering a provider of it.
SseWithServiceEager ==
    /\ pc = "sse_with_service"
    /\ server' = [server EXCEPT !.factory = ServiceProvider]
    /\ instances' = Append(instances, CounterNew)
    /\ ct' = NewToken
    /\ pc' = "sse_running"
    /\ UNCHANGED <<argVars, result, events, cancelCalls, conns, session, sigints,
                   handler>>

\* server.with_service(Counter::new), line 95: the factory is registered and
\* the listener's cancellation token is returned.
SseWithService ==
    /\ pc = "sse_with_service"
    /\ server' = [server EXCEPT !.factory = ServiceProvider]
    /\ ct' = NewToken
    /\ pc' = "sse_running"
    /\ UNCHANGED <<argVars, result, events, cancelCalls, envVars, handler>>

\* The failed signal wait cleaned up with a cancel before the error returns.
SseCtrlCInstallCancels ==
    /\ pc = "sse_running"
    /\ events' = Append(events, Ev("INFO", "Server running, press Ctrl+C to stop"))
    /\ \/ /\ handler' = TRUE
          /\ pc' = "sse_ctrl_c"
          /\ UNCHANGED <<result, ct, cancelCalls>>
       \/ /\ result' = Err("SignalError")
          /\ ct' = Cancel(ct)
          /\ cancelCalls' = cancelCalls + 1
          /\ pc' = "done"
          /\ UNCHANGED handler
    /\ UNCHANGED <<argVars, server, envVars>>

\* line 104 and the call of ctrl_c() on line 105: the handler is installed
\* and main waits, or the installation fails and ? returns.
SseCtrlCInstall ==
    /\ pc = "sse_running"
    /\ events' = Append(events, Ev("INFO", "Server running, press Ctrl+C to stop"))
    /\ \/ /\ handler' = TRUE
          /\ pc' = "sse_ctrl_c"
          /\ UNCHANGED result
       \/ /\ result' = Err("SignalError")
          /\ pc' = "done"
          /\ UNCHANGED handler
    /\ UNCHANGED <<argVars, server, ct, cancelCalls, envVars>>

\* The shutdown started without waiting for the signal.
SseCtrlCOkUnsignalled ==
    /\ pc = "sse_ctrl_c"
    /\ events' = Append(events, Ev("INFO", "Shutting down SSE server"))
    /\ pc' = "sse_cancel"
    /\ UNCHANGED <<argVars, result, server, ct, cancelCalls, envVars, handler>>

\* ctrl_c().await returned Ok, line 106.
SseCtrlCOk ==
    /\ pc = "sse_ctrl_c"
    /\ sigints > 0
    /\ events' = Append(events, Ev("INFO", "Shutting down SSE server"))
    /\ pc' = "sse_cancel"
    /\ UNCHANGED <<argVars, result, server, ct, cancelCalls, envVars, handler>>

\* The shutdown without the call of ct.cancel().
SseCancelSkipped ==
    /\ pc = "sse_cancel"
    /\ events' = Append(events, Ev("INFO", "Server shutdown complete"))
    /\ pc' = "sse_exit"
    /\ UNCHANGED <<argVars, result, server, ct, cancelCalls, envVars, handler>>

\* The shutdown with ct.cancel() called twice.
SseCancelTwice ==
    /\ pc = "sse_cancel"
    /\ ct' = Cancel(Cancel(ct))
    /\ cancelCalls' = cancelCalls + 2
    /\ events' = Append(events, Ev("INFO", "Server shutdown complete"))
    /\ pc' = "sse_exit"
    /\ UNCHANGED <<argVars, result, server, envVars, handler>>

\* ct.cancel(), lines 107-108.
SseCancel ==
    /\ pc = "sse_cancel"
    /\ ct' = Cancel(ct)
    /\ cancelCalls' = cancelCalls + 1
    /\ events' = Append(events, Ev("INFO", "Server shutdown complete"))
    /\ pc' = "sse_exit"
    /\ UNCHANGED <<argVars, result, server, envVars, handler>>

\* main returning only once every connection has closed.
SseExitDrains ==
    /\ pc = "sse_exit"
    /\ \A c \in 1..Len(conns) : ~conns[c].open
    /\ events' = Append(events, Ev("INFO", "RMCP server exiting"))
    /\ result' = Ok
    /\ pc' = "done"
    /\ UNCHANGED <<argVars, server, ct, cancelCalls, envVars, handler>>

\* lines 112-113 after the SSE branch.
SseExit ==
    /\ pc = "sse_exit"
    /\ events' = Append(events, Ev("INFO", "RMCP server exiting"))
    /\ result' = Ok
    /\ pc' = "done"
    /\ UNCHANGED <<argVars, server, ct, cancelCalls, envVars, handler>>

Host ==
    \/ Start
    \/ StdioServeOk \/ StdioServeErr \/ StdioWaitingOk \/ StdioWaitingErr
    \/ SseParse \/ SseServeOk \/ SseServeErr \/ SseWithService
    \/ SseCtrlCInstall \/ SseCtrlCOk \/ SseCancel \/ SseExit

\* ------------------------------------------------------------ environment
hostVars == <<argVars, pc, result, events, server, ct, cancelCalls, handler>>

\* The peer closes the stdio stream.
CloseStdin ==
    /\ pc # "done"
    /\ session \in {"initializing", "serving"}
    /\ session' = "closed"
    /\ UNCHANGED <<hostVars, conns, instances, sigints>>

\* The stdio session's task fails while serving.
SessionFault ==
    /\ pc # "done"
    /\ session = "serving"
    /\ session' = "failed"
    /\ UNCHANGED <<hostVars, conns, instances, sigints>>

\* An interrupt signal reaches the installed handler.
SigInt ==
    /\ pc # "done"
    /\ handler
    /\ sigints < MaxSignals
    /\ sigints' = sigints + 1
    /\ UNCHANGED <<hostVars, conns, instances, session>>

\* The instance the listener gives a new connection: the provider's product.
Provide(provider, insts) ==
    IF provider = "Counter::new"
    THEN [insts |-> Append(insts, CounterNew), inst |-> Len(insts) + 1]
    ELSE IF insts = <<>>
         THEN [insts |-> <<CounterNew>>, inst |-> 1]
         ELSE [insts |-> insts, inst |-> 1]

\* A listener that keeps accepting after the token is cancelled.
ConnectAfterCancel ==
    /\ pc # "done"
    /\ server.bound
    /\ server.factory # "none"
    /\ Len(conns) < MaxConns
    /\ LET p == Provide(server.factory, instances)
       IN /\ instances' = p.insts
          /\ conns' = Append(conns, [open |-> TRUE, inst |-> p.inst])
    /\ UNCHANGED <<hostVars, session, sigints>>

\* The listener accepts an inbound connection and invokes the factory.
Connect ==
    /\ pc # "done"
    /\ server.bound
    /\ server.factory # "none"
    /\ ~ct.cancelled
    /\ Len(conns) < MaxConns
    /\ LET p == Provide(server.factory, instances)
       IN /\ instances' = p.insts
          /\ conns' = Append(conns, [open |-> TRUE, inst |-> p.inst])
    /\ UNCHANGED <<hostVars, session, sigints>>

\* Counter's operations on instance i.
Increment(insts, i) == [insts EXCEPT ![i] = @ + 1]
Decrement(insts, i) == [insts EXCEPT ![i] = @ - 1]

\* A client's request on its open connection c.
Request(c) ==
    /\ pc # "done"
    /\ c \in 1..Len(conns)
    /\ conns[c].open
    /\ \/ /\ instances[conns[c].inst] < MaxVal
          /\ instances' = Increment(instances, conns[c].inst)
       \/ /\ instances[conns[c].inst] > -MaxVal
          /\ instances' = Decrement(instances, conns[c].inst)
    /\ UNCHANGED <<hostVars, conns, session, sigints>>

\* A request on the stdio session's one instance.
StdioRequest ==
    /\ pc # "done"
    /\ session = "serving"
    /\ \/ /\ instances[1] < MaxVal
          /\ instances' = Increment(instances, 1)
       \/ /\ instances[1] > -MaxVal
          /\ instances' = Decrement(instances, 1)
    /\ UNCHANGED <<hostVars, conns, session, sigints>>

\* A client closes its connection.
Disconnect(c) ==
    /\ pc # "done"
    /\ c \in 1..Len(conns)
    /\ conns[c].open
    /\ ~ct.cancelled
    /\ conns' = [conns EXCEPT ![c].open = FALSE]
    /\ UNCHANGED <<hostVars, instances, session, sigints>>

\* A connection's task observes the cancelled token and closes.
ConnShutdown(c) ==
    /\ pc # "done"
    /\ c \in 1..Len(conns)
    /\ conns[c].open
    /\ ct.cancelled
    /\ conns' = [conns EXCEPT ![c].open = FALSE]
    /\ UNCHANGED <<hostVars, instances, session, sigints>>

Env ==
    \/ CloseStdin \/ SessionFault \/ SigInt \/ Connect \/ StdioRequest
    \/ \E c \in 1..MaxConns : Request(c) \/ Disconnect(c) \/ ConnShutdown(c)

Next == Host \/ Env

Spec == Init /\ [][Next]_vars

\* The scheduler runs main whenever it can take a step.
FairSpec == Spec /\ WF_vars(Host)

\* -------------------------------------------------------- lifecycle state
State ==
    CASE pc = "start" -> "Idle"
      [] pc = "stdio_serve" -> "Attaching"
      [] pc = "stdio_waiting" -> "Running"
      [] pc \in {"sse_parse", "sse_serve"} -> "Parsing"
      [] pc = "sse_with_service" -> "Listening"
      [] pc \in {"sse_running", "sse_ctrl_c"} -> "Running"
      [] pc \in {"sse_cancel", "sse_exit"} -> "ShuttingDown"
      [] pc = "done" -> "Terminated"

TypeOK ==
    /\ transport \in TransportType
    /\ bind_address \in BindAddresses
    /\ log_level \in LogLevels
    /\ pc \in {"start", "stdio_serve", "stdio_waiting", "sse_parse", "sse_serve",
               "sse_with_service", "sse_running", "sse_ctrl_c", "sse_cancel",
               "sse_exit", "done"}
    /\ result.tag \in {"Pending", "Ok", "Err"}
    /\ cancelCalls \in Nat
    /\ Len(conns) <= MaxConns
    /\ \A i \in 1..Len(instances) : instances[i] \in -MaxVal..MaxVal
    /\ sigints \in 0..MaxSignals
    /\ handler \in BOOLEAN

\* ================================================================ claims
Sse == transport = "Sse"
Stdio == transport = "Stdio"
HasEvent(msg) == \E i \in 1..Len(events) : events[i].msg = msg
Reported(msg) == \E i \in 1..Len(Emitted) : Emitted[i].msg = msg
Count(msg) == Cardinality({i \in 1..Len(events) : events[i].msg = msg})
Terminated == pc = "done"

\* C1 (as stated): in SSE mode, in every run, main never returns before
\* ct.cancel() has been called.
C1_CancelBeforeEveryExit ==
    (Sse /\ Terminated) => cancelCalls >= 1

\* C1 (amended): in SSE mode main never returns Ok, and never returns once the
\* shutdown has begun, before ct.cancel() has been called: from the moment the
\* call is behind main until it has returned, exactly one cancel has been
\* issued and the token is cancelled.  The runs that end in an error (bad
\* address, listener not started, signal wait failed) return without a cancel.
C1_CancelBeforeCleanExit ==
    /\ (Sse /\ pc \in {"sse_exit", "done"} /\ result.tag # "Err")
          => (cancelCalls = 1 /\ ct.cancelled)
    /\ (Sse /\ Terminated /\ HasEvent("Shutting down SSE server"))
          => (cancelCalls = 1 /\ ct.cancelled /\ result = Ok)
    /\ (Sse /\ Terminated /\ result.tag = "Err") => cancelCalls = 0

C1_Witness ==
    Sse /\ Terminated /\ result = Ok /\ cancelCalls = 1 /\ ct.cancelled

\* The transitions of the lifecycle state the SSE path is said to have.
SseClaimed ==
    { <<"Idle", "Parsing">>, <<"Parsing", "Listening">>, <<"Listening", "Running">>,
      <<"Running", "ShuttingDown">>, <<"ShuttingDown", "Terminated">>,
      <<"Parsing", "Terminated">> }

Rank(st) ==
    CASE st = "Idle" -> 0
      [] st \in {"Parsing", "Attaching"} -> 1
      [] st = "Listening" -> 2
      [] st = "Running" -> 3
      [] st = "ShuttingDown" -> 4
      [] st = "Terminated" -> 5

SseStep(allowed) ==
    (Sse /\ State' # State) =>
        /\ <<State, State'>> \in allowed
        /\ Rank(State') > Rank(State)
        /\ (State' = "ShuttingDown" => sigints > 0)
        /\ (State = "Parsing" /\ State' = "Terminated") => result'.tag = "Err"
        /\ (State = "ShuttingDown" /\ State' = "Terminated") => result' = Ok

\* C2 (as stated): in SSE mode every change of the lifecycle state is one of
\* Idle->Parsing->Listening->Running->ShuttingDown->Terminated or
\* Parsing->Terminated(error), always forward, and Running->ShuttingDown
\* happens only once the signal has been received.
C2_OnlyClaimedTransitions ==
    [][SseStep(SseClaimed)]_vars

\* C2 (amended): as stated, with one more transition: Running->Terminated(error)
\* when the wait for the interrupt signal fails.  Every change of state moves
\* strictly forward, so no state is entered twice.
C2_ForwardTransitions ==
    [][/\ SseStep(SseClaimed \cup {<<"Running", "Terminated">>})
       /\ (Sse /\ State = "Running" /\ State' = "Terminated")
             => result' = Err("SignalError")]_vars

C2_Witness ==
    /\ Sse /\ Terminated /\ result = Ok
    /\ Count("Shutting down SSE server") = 1
    /\ Count("Server running, press Ctrl+C to stop") = 1

\* C3: main's exit status is non-zero after every error, and zero only after
\* a clean shutdown (signal received, cancel called) in SSE mode or after the
\* stdio stream closed by itself.
C3_ExitCodes ==
    /\ ~Terminated => result = Pending
    /\ Terminated =>
          /\ result.tag \in {"Ok", "Err"}
          /\ result.tag = "Err" => ExitCode(result) # 0
          /\ ExitCode(result) = 0 =>
                \/ Sse /\ sigints > 0 /\ cancelCalls = 1 /\ ct.cancelled
                \/ Stdio /\ session = "closed"
          /\ (\E i \in 1..Len(events) : events[i].level = "ERROR")
                => ExitCode(result) # 0
          /\ (Sse /\ ~ParseOk(bind_address)) => ExitCode(result) # 0
          /\ (Stdio /\ session = "failed") => ExitCode(result) # 0

C3_Witness ==
    Terminated /\ result = Err("SessionError") /\ ExitCode(result) = 1

\* C4: in SSE mode with a bind address that does not parse, main goes from
\* Parsing straight to Terminated with a non-zero exit and the parse error
\* reported; the listener is never started, no factory is registered and
\* cancel is never called.
C4_InvalidAddress ==
    (Sse /\ ~ParseOk(bind_address)) =>
        /\ State \in {"Idle", "Parsing", "Terminated"}
        /\ pc # "sse_serve"
        /\ server = NoServer
        /\ ct = NoToken
        /\ cancelCalls = 0
        /\ conns = <<>> /\ instances = <<>>
        /\ Terminated =>
              /\ result = Err("ConfigurationError")
              /\ ExitCode(result) # 0
              /\ Reported("Failed to parse bind address")
              /\ ~HasEvent("Starting SSE server on")

C4_Witness ==
    /\ Sse /\ Terminated /\ bind_address.junk
    /\ result = Err("ConfigurationError")

\* C5: in SSE mode, when the address parses but the listener cannot be
\* started, main reports it and returns an error at once: it never reaches
\* Listening or Running, registers no factory and never waits for the signal.
C5_BindFailure ==
    HasEvent("Failed to start SSE server") =>
        /\ Sse /\ ParseOk(bind_address)
        /\ Terminated
        /\ result = Err("BindError")
        /\ ExitCode(result) # 0
        /\ Reported("Failed to start SSE server")
        /\ server = NoServer
        /\ ct = NoToken
        /\ ~handler /\ sigints = 0
        /\ conns = <<>> /\ instances = <<>>
        /\ ~HasEvent("SSE server started successfully")
        /\ ~HasEvent("Server running, press Ctrl+C to stop")

C5_Witness ==
    Sse /\ Terminated /\ result = Err("BindError")

\* C6: in SSE mode the interrupt signal received while Running starts the
\* shutdown exactly once, main then returns Ok (exit status zero), and the
\* signal becomes exactly one call of ct.cancel(), however many signals come.
C6_SignalShutsDownOnce ==
    /\ [](cancelCalls <= 1)
    /\ [](Count("Shutting down SSE server") <= 1)
    /\ []((Sse /\ Terminated /\ HasEvent("Shutting down SSE server"))
             => (result = Ok /\ ExitCode(result) = 0 /\ cancelCalls = 1))
    /\ [][(State # "ShuttingDown" /\ State' = "ShuttingDown")
             => (State = "Running" /\ sigints > 0 /\ cancelCalls = 0)]_vars
    /\ [][(State = "ShuttingDown" /\ State' # "ShuttingDown")
             => (State' = "Terminated" /\ cancelCalls = 1 /\ result' = Ok)]_vars
    /\ (pc = "sse_ctrl_c" /\ sigints > 0)
          ~> (Terminated /\ result = Ok /\ cancelCalls = 1)

C6_Witness ==
    /\ Sse /\ Terminated /\ result = Ok
    /\ sigints = MaxSignals /\ cancelCalls = 1
    /\ Count("Shutting down SSE server") = 1

Observed(cs, insts, c) == insts[cs[c].inst]

\* C8: in SSE mode every inbound connection gets an instance constructed for
\* it: no two connections share one, a new connection's instance is new and
\* holds the initial value, and a request on one connection changes what no
\* other connection observes.
C8_FreshInstancePerConnection ==
    /\ [](Sse => /\ Len(instances) = Len(conns)
                 /\ \A c, d \in 1..Len(conns) :
                       c # d => conns[c].inst # conns[d].inst)
    /\ [][(Sse /\ Len(conns') > Len(conns)) =>
             /\ Len(conns') = Len(conns) + 1
             /\ conns'[Len(conns')].inst = Len(instances) + 1
             /\ Len(instances') = Len(instances) + 1
             /\ Observed(conns', instances', Len(conns')) = CounterNew
             /\ \A c \in 1..Len(conns) :
                   Observed(conns', instances', c) = Observed(conns, instances, c)]_vars
    /\ [][(Sse /\ Len(conns') = Len(conns)) =>
             Cardinality({c \in 1..Len(conns) :
                 Observed(conns', instances', c) # Observed(conns, instances, c)}) <= 1]_vars

C8_Witness ==
    /\ Sse /\ Len(conns) = 2
    /\ conns[1].open /\ conns[2].open
    /\ conns[1].inst # conns[2].inst
    /\ Observed(conns, instances, 1) = MaxVal
    /\ Observed(conns, instances, 2) = -MaxVal

C10_StdioTransitions ==
    /\ [][(Stdio /\ State' # State) =>
             /\ <<State, State'>> \in
                   { <<"Idle", "Attaching">>, <<"Attaching", "Running">>,
                     <<"Attaching", "Terminated">>, <<"Running", "Terminated">> }
             /\ (State = "Attaching" /\ State' = "Terminated")
                   => result' = Err("AttachmentError")
             /\ (State = "Attaching" /\ State' = "Running")
                   => result' = Pending
             /\ (State = "Running" /\ State' = "Terminated")
                   => \/ session = "closed" /\ result' = Ok
                      \/ session = "failed" /\ result' = Err("SessionError")]_vars
    /\ []((Stdio /\ HasEvent("Failed to serve Counter over stdio")) =>
             /\ Terminated /\ result = Err("AttachmentError")
             /\ ~HasEvent("Service initialized, waiting for completion")
             /\ session \notin {"serving", "failed"})

C10_Witness ==
    /\ Stdio /\ Terminated /\ result = Err("AttachmentError")
    /\ ~HasEvent("Service initialized, waiting for completion")

\* C11: in stdio mode exactly one Counter is constructed for the whole run
\* and main never calls cancel: no listener, no token, no connection.
C11_StdioOneInstanceNoCancel ==
    Stdio =>
        /\ Len(instances) = (IF pc = "start" THEN 0 ELSE 1)
        /\ cancelCalls = 0
        /\ ct = NoToken
        /\ server = NoServer
        /\ conns = <<>>
        /\ ~handler /\ sigints = 0

C11_Witness ==
    /\ Stdio /\ Terminated /\ result = Ok
    /\ Len(instances) = 1 /\ instances[1] # CounterNew
    /\ cancelCalls = 0

\* C12: at most one transport is bound per run: the stdio transport and the
\* SSE listener are never both bound, the transport mode never changes, and
\* neither kind is bound twice.
C12_OneTransportBinding ==
    /\ [](~(session # "none" /\ server.bound))
    /\ [](Stdio => (server = NoServer /\ ~HasEvent("Starting SSE server on")))
    /\ [](Sse => (session = "none"
                   /\ ~HasEvent("Initializing Counter service with stdio transport")))
    /\ [](Count("Initializing Counter service with stdio transport") <= 1)
    /\ [](Count("Starting SSE server on") <= 1)
    /\ [](Count("SSE server started successfully") <= 1)
    /\ [][transport' = transport]_vars
    /\ [][server.bound => server'.bound]_vars
    /\ [][session # "none" => session' # "none"]_vars

C12_Witness ==
    /\ Sse /\ server.bound /\ session = "none" /\ Len(conns) = MaxConns
    /\ Count("SSE server started successfully") = 1

\* C13: no error is swallowed: whenever main ends with a failure of parsing,
\* binding, attaching or serving, an error line naming that phase has been
\* logged before.
C13_EveryFailureLogged ==
    (Terminated /\ result.tag = "Err"
        /\ result.e \in {"ConfigurationError", "BindError", "AttachmentError",
                         "SessionError"})
        => (\E i \in 1..Len(Emitted) : Emitted[i].level = "ERROR")

\* C14: nothing is retried: the address is parsed, the listener started, the
\* stdio transport attached and the session waited on at most once per run,
\* and a failure of any of them ends the run in that step.
C14_NoRetry ==
    /\ Count("Parsing bind address") <= 1
    /\ Count("Starting SSE server on") <= 1
    /\ Count("Initializing Counter service with stdio transport") <= 1
    /\ Count("Service initialized, waiting for completion") <= 1
    /\ Count("Failed to parse bind address") <= 1
    /\ Count("Failed to start SSE server") <= 1
    /\ Count("Failed to serve Counter over stdio") <= 1
    /\ (\E i \in 1..Len(events) : events[i].level = "ERROR") => Terminated
    /\ result.tag = "Err" => Terminated
    /\ (pc = "stdio_waiting" /\ session = "failed") => ENABLED StdioWaitingErr
    /\ Terminated => ~ENABLED Host

C14_Witness ==
    /\ Sse /\ Terminated /\ result = Err("BindError")
    /\ Count("Starting SSE server on") = 1
    /\ Count("Failed to start SSE server") = 1

\* What main has logged by position p with result r on the stdio path,
\* written without the bind address and without the log level.
StdioTrace(p, r) ==
    LET init == Ev("INFO", "Service initialized, waiting for completion")
    IN CASE p = "start" -> <<>>
         [] p = "stdio_serve" -> StdioStartEvents
         [] p = "stdio_waiting" -> Append(StdioStartEvents, init)
         [] p = "done" /\ r = Err("AttachmentError") ->
               Append(StdioStartEvents,
                      Ev("ERROR", "Failed to serve Counter over stdio"))
         [] p = "done" /\ r = Err("SessionError") -> Append(StdioStartEvents, init)
         [] p = "done" /\ r = Ok ->
               StdioStartEvents \o << init, Ev("INFO", "Service completed"),
                                      Ev("INFO", "RMCP server exiting") >>
         [] OTHER -> << Ev("ERROR", "not a position of the stdio path") >>

\* C15: the bind address is ignored in stdio mode: main never parses it, and
\* what main does (its position, what it logs, when it can step, what it
\* returns) is the same function of the session's events whether the address
\* is valid or not.
C15_StdioIgnoresBindAddress ==
    Stdio =>
        /\ ~HasEvent("Parsing bind address")
        /\ ~HasEvent("Failed to parse bind address")
        /\ result # Err("ConfigurationError")
        /\ events = StdioTrace(pc, result)
        /\ (ENABLED Host) <=>
              \/ pc \in {"start", "stdio_serve"}
              \/ pc = "stdio_waiting" /\ session \in {"closed", "failed"}
        /\ (Terminated /\ session = "closed" /\ result.tag = "Err")
              => result = Err("AttachmentError")
        /\ (Terminated /\ session = "failed") => result = Err("SessionError")

C15_Witness ==
    /\ Stdio /\ ~ParseOk(bind_address) /\ bind_address.junk
    /\ Terminated /\ result = Ok /\ ExitCode(result) = 0

\* What main has logged by position p with result r on the SSE path, written
\* without the log level.
SseTrace(p, r) ==
    LET serving == Append(SseStartEvents, Ev("INFO", "Starting SSE server on"))
        started == Append(serving, Ev("DEBUG", "SSE server started successfully"))
        running == Append(started, Ev("INFO", "Server running, press Ctrl+C to stop"))
        stopping == Append(running, Ev("INFO", "Shutting down SSE server"))
        stopped == Append(stopping, Ev("INFO", "Server shutdown complete"))
    IN CASE p = "start" -> <<>>
         [] p = "sse_parse" -> SseStartEvents
         [] p = "sse_serve" -> serving
         [] p \in {"sse_with_service", "sse_running"} -> started
         [] p = "sse_ctrl_c" -> running
         [] p = "sse_cancel" -> stopping
         [] p = "sse_exit" -> stopped
         [] p = "done" /\ r = Err("ConfigurationError") ->
               Append(SseStartEvents, Ev("ERROR", "Failed to parse bind address"))
         [] p = "done" /\ r = Err("BindError") ->
               Append(serving, Ev("ERROR", "Failed to start SSE server"))
         [] p = "done" /\ r = Err("SignalError") -> running
         [] p = "done" /\ r = Ok -> Append(stopped, Ev("INFO", "RMCP server exiting"))
         [] OTHER -> << Ev("ERROR", "not a position of the SSE path") >>

\* The events an INFO subscriber lets through.
AtInfo(e) == e.level \in {"ERROR", "WARN", "INFO"}

\* C16: the log level only selects what is printed: the sequence of tracing
\* calls main makes, the positions it goes through and what it returns are a
\* function of the transport, the address and the external events that does
\* not read the log level; what is printed is that sequence filtered, and an
\* unrecognized level prints what info prints.
C16_LogLevelObservational ==
    /\ events = (IF Stdio THEN StdioTrace(pc, result) ELSE SseTrace(pc, result))
    /\ (ENABLED Host) <=>
          \/ pc \in {"start", "stdio_serve", "sse_parse", "sse_serve",
                     "sse_with_service", "sse_running", "sse_cancel", "sse_exit"}
          \/ pc = "stdio_waiting" /\ session \in {"closed", "failed"}
          \/ pc = "sse_ctrl_c" /\ sigints > 0
    /\ (log_level \notin {"trace", "debug", "info", "warn", "error"})
          => Emitted = SelectSeq(events, AtInfo)
    /\ (log_level = "info") => Emitted = SelectSeq(events, AtInfo)
    /\ (log_level = "trace") => Emitted = events

C16_Witness ==
    /\ log_level = "verbose" /\ Sse /\ Terminated /\ result = Ok
    /\ Len(Emitted) < Len(events) /\ Len(Emitted) > 0

OpenConns == {c \in 1..Len(conns) : conns[c].open}

\* C17: in SSE mode, once cancel has been called the listener accepts no
\* connection and calls the factory no more; the cancel itself closes
\* nothing by force: each connection still open has been told to close and
\* closes by its own step, and none reopens.
C17_NoAcceptAfterCancel ==
    /\ [][cancelCalls >= 1 =>
             /\ Len(conns') = Len(conns)
             /\ Len(instances') = Len(instances)
             /\ \A c \in 1..Len(conns) : ~conns[c].open => ~conns'[c].open]_vars
    /\ [][cancelCalls' > cancelCalls => (conns' = conns /\ instances' = instances)]_vars
    /\ [](cancelCalls >= 1 => ct.cancelled)
    /\ []((cancelCalls >= 1 /\ ~Terminated)
             => \A c \in OpenConns : ENABLED ConnShutdown(c))

C17_Witness ==
    /\ Sse /\ cancelCalls = 1 /\ pc = "sse_exit"
    /\ Len(conns) = 1 /\ ~conns[1].open /\ MaxConns > 1

\* C18: in SSE mode, after the signal is delivered in Running main reaches
\* Terminated whatever the connections do: with connections still open it
\* calls cancel and returns, and none of its steps waits for a connection.
C18_ShutdownDoesNotDrain ==
    /\ (pc = "sse_ctrl_c" /\ sigints > 0 /\ OpenConns # {})
          ~> (Terminated /\ result = Ok)
    /\ [](pc \in {"sse_cancel", "sse_exit"} => ENABLED Host)
    /\ [][(pc \in {"sse_ctrl_c", "sse_cancel", "sse_exit"} /\ pc' # pc)
             => conns' = conns]_vars

C18_Witness ==
    /\ Sse /\ Terminated /\ result = Ok /\ cancelCalls = 1
    /\ OpenConns = 1..MaxConns

\* C19: in SSE mode, when the wait for the interrupt signal fails while the
\* listener is running, main returns the error (non-zero exit) from Running,
\* without the shutdown and without calling cancel.
C19_SignalWaitFailure ==
    /\ [](result = Err("SignalError") =>
             /\ Sse /\ Terminated /\ ExitCode(result) # 0
             /\ cancelCalls = 0 /\ ~ct.cancelled /\ ct.held
             /\ server.bound /\ server.factory # "none"
             /\ ~HasEvent("Shutting down SSE server")
             /\ ~HasEvent("Server shutdown complete")
             /\ HasEvent("Server running, press Ctrl+C to stop"))
    /\ [][result' = Err("SignalError") /\ result # result'
             => (State = "Running" /\ State' = "Terminated")]_vars

C19_Witness ==
    /\ result = Err("SignalError") /\ Terminated
    /\ OpenConns # {} /\ cancelCalls = 0

\* C20: in SSE mode main constructs no Counter: the factory is registered
\* only once the listener has started, and the instances constructed are as
\* many as the connections accepted, none while no client has connected.
C20_InstancesEqualConnections ==
    Sse =>
        /\ Len(instances) = Len(conns)
        /\ server.factory # "none" => server.bound
        /\ server.factory # "none" => HasEvent("SSE server started successfully")
        /\ pc \in {"start", "sse_parse", "sse_serve", "sse_with_service"}
              => (server.factory = "none" /\ instances = <<>> /\ conns = <<>>)
        /\ conns = <<>> => instances = <<>>

C20_Witness ==
    /\ Sse /\ Terminated /\ result = Ok
    /\ Len(conns) = MaxConns /\ Len(instances) = MaxConns

====
